---------------------------- MODULE Spec2Model ----------------------------
(***************************************************************************)
(* Hivemind for Twitch (src/content.js): ingestion of chat message         *)
(* elements, the two dedup caches, the sliding window with its counters,   *)
(* the trending ranking and the throttled panel update scheduler.          *)
(*                                                                         *)
(* Time is in milliseconds.  Text is a sequence of one-character strings.  *)
(* A JS value that the counter object can hold is a record                 *)
(*   [t |-> "num", v |-> n]   the number n                                 *)
(*   [t |-> "nan", v |-> 0]   NaN                                          *)
(*   [t |-> "str", v |-> n]   the string "function Object() { [native      *)
(*                            code] }" followed by n characters "1"        *)
(*   [t |-> "fun", v |-> 0]   the function Object (Object.prototype's      *)
(*                            constructor property)                        *)
(*   [t |-> "undef", v |-> 0] undefined                                    *)
(***************************************************************************)
EXTENDS Integers, Sequences, FiniteSets, TLC

VARIABLES
    now,                  \* Date.now() / performance.now()
    ticks,                \* number of clock advances so far (bounds the run)
    SPAM_THRESHOLD, MAX_ENTRIES, WINDOW_MS, WINDOW_MAX,
    TRIM_INTERVAL_MS, RENDER_THROTTLE_MS,
    showEmptyState,       \* currentSettings.showEmptyState
    trimPeriod,           \* period the setInterval of the trim timer was created with
    messageCounts,        \* JS object: sequence of own properties [key, val]
    messageTimestamps,    \* JS object: sequence of own properties [key, val]
    messageTokens,        \* Map signature -> tokens
    recent,               \* queue of [text, ts]
    trendingTexts,        \* keys of the last getTrending()
    processedIdMap,       \* Map id -> [signature, ts]
    processedIdQueue,     \* array of ids
    processedElements,    \* WeakMap element -> [signature, ts]
    panelUpdateScheduled, lastRenderTs, lastPanelContent,
    panelDelayId, panelFallbackId, rafId,
    timers,               \* callbacks registered with setTimeout / requestAnimationFrame
    panelInnerHTML,       \* panel.innerHTML, the content delivered to the page
    sendText              \* the text of the last fillChatInput call, <<>> before the first

confVars  == <<SPAM_THRESHOLD, MAX_ENTRIES, WINDOW_MS, WINDOW_MAX,
               TRIM_INTERVAL_MS, RENDER_THROTTLE_MS, showEmptyState>>
aggVars   == <<messageCounts, messageTimestamps, messageTokens, recent>>
dedupVars == <<processedIdMap, processedIdQueue, processedElements>>
schedVars == <<panelUpdateScheduled, panelDelayId, panelFallbackId, rafId, timers>>
panelVars == <<lastRenderTs, lastPanelContent, panelInnerHTML, trendingTexts>>
vars == <<now, ticks, confVars, trimPeriod, aggVars, dedupVars, schedVars,
          panelVars, sendText>>

-----------------------------------------------------------------------------
(* Bounds of the model *)

MaxTicks == 2
MaxWindow == 3
\* PROCESSED_ID_LIMIT is 2000 in the source; the model runs it at a small value
PROCESSED_ID_LIMIT == 1

(* Constants of the program *)
ELEMENT_REPROCESS_GRACE_MS == 120
RAF_FALLBACK_MS == 200
MsPerMinute == 60 * 1000
MsPerSecond == 1000

-----------------------------------------------------------------------------
(* Values *)

Max(a, b) == IF a >= b THEN a ELSE b

Num(n) == [t |-> "num", v |-> n]
NaN == [t |-> "nan", v |-> 0]
Str(n) == [t |-> "str", v |-> n]
FunObject == [t |-> "fun", v |-> 0]
Undefined == [t |-> "undef", v |-> 0]

\* The all-lowercase key that every plain object inherits from Object.prototype
ProtoKey == <<"c","o","n","s","t","r","u","c","t","o","r">>

\* obj[key]: the own property, else the inherited one, else undefined
ObjOwn(obj, key) == \E i \in 1..Len(obj) : obj[i].key = key
ObjIdx(obj, key) == CHOOSE i \in 1..Len(obj) : obj[i].key = key
ObjGet(obj, key) ==
    IF ObjOwn(obj, key) THEN obj[ObjIdx(obj, key)].val
    ELSE IF key = ProtoKey THEN FunObject
    ELSE Undefined
\* key in obj
ObjIn(obj, key) == ObjOwn(obj, key) \/ key = ProtoKey
\* obj[key] = val: an existing own property keeps its place, a new one goes last
ObjSet(obj, key, val) ==
    IF ObjOwn(obj, key)
    THEN [obj EXCEPT ![ObjIdx(obj, key)] = [key |-> key, val |-> val]]
    ELSE Append(obj, [key |-> key, val |-> val])
\* delete obj[key]
ObjDelete(obj, key) == SelectSeq(obj, LAMBDA p : p.key # key)
ObjKeys(obj) == {obj[i].key : i \in 1..Len(obj)}

\* x || 0
OrZero(x) ==
    CASE x.t = "num" -> IF x.v = 0 THEN Num(0) ELSE x
      [] x.t = "nan" -> Num(0)
      [] x.t = "undef" -> Num(0)
      [] OTHER -> x
\* x + 1
PlusOne(x) ==
    CASE x.t = "num" -> Num(x.v + 1)
      [] x.t = "nan" -> NaN
      [] x.t = "undef" -> NaN
      [] x.t = "str" -> Str(x.v + 1)
      [] OTHER -> Str(1)
\* x - 1
MinusOne(x) == IF x.t = "num" THEN Num(x.v - 1) ELSE NaN
\* x <= n, x >= n
JsLe(x, n) == x.t = "num" /\ x.v <= n
JsGe(x, n) == x.t = "num" /\ x.v >= n

\* Map operations
MapHas(m, k) == k \in DOMAIN m
MapSet(m, k, v) == [x \in (DOMAIN m) \cup {k} |-> IF x = k THEN v ELSE m[x]]
MapDelete(m, k) == [x \in (DOMAIN m) \ {k} |-> m[x]]
EmptyMap == [x \in {} |-> 0]


-----------------------------------------------------------------------------
(* Text *)

\* U+200B..U+200D and U+FEFF, the class removed by normalizeText
ZeroWidth == {"ZWSP", "ZWJ", "BOM"}
\* the characters matched by \s and stripped by trim(); U+FEFF is one of them
Whitespace == {" ", "TAB", "BOM"}

toLowerCase(c) ==
    CASE c = "G" -> "g"
      [] c = "W" -> "w"
      [] c = "P" -> "p"
      [] OTHER -> c

RECURSIVE DropLeadingWs(_)
DropLeadingWs(s) ==
    IF s # <<>> /\ Head(s) \in Whitespace THEN DropLeadingWs(Tail(s)) ELSE s

RECURSIVE DropTrailingWs(_)
DropTrailingWs(s) ==
    IF s # <<>> /\ s[Len(s)] \in Whitespace
    THEN DropTrailingWs(SubSeq(s, 1, Len(s) - 1))
    ELSE s

\* s.trim()
Trim(s) == DropTrailingWs(DropLeadingWs(s))

\* s.replace(/\s+/g, ' ')
RECURSIVE CollapseWs(_)
CollapseWs(s) ==
    IF s = <<>> THEN <<>>
    ELSE IF Head(s) \in Whitespace
         THEN <<" ">> \o CollapseWs(DropLeadingWs(Tail(s)))
         ELSE <<Head(s)>> \o CollapseWs(Tail(s))

\* s.replace(/[\u200B-\u200D\uFEFF]/g, '')
StripZeroWidth(s) == SelectSeq(s, LAMBDA c : c \notin ZeroWidth)

\* variant: the zero-width characters are removed after the whitespace is
\* collapsed and trimmed
normalizeTextStripLast(s) ==
    IF s = <<>> THEN <<>>
    ELSE LET t == StripZeroWidth(Trim(CollapseWs(s)))
         IN [i \in 1..Len(t) |-> toLowerCase(t[i])]

normalizeText(s) ==
    IF s = <<>> THEN <<>>
    ELSE LET t == Trim(CollapseWs(StripZeroWidth(s)))
         IN [i \in 1..Len(t) |-> toLowerCase(t[i])]

TextToken(s) == [kind |-> "text", text |-> s, alt |-> <<>>, src |-> ""]
EmoteToken(a, u) == [kind |-> "emote", text |-> <<>>, alt |-> a, src |-> u]

TokenText(t) == IF t.kind = "text" THEN t.text ELSE t.alt

\* parts.join(' ')
RECURSIVE JoinSpace(_)
JoinSpace(parts) ==
    IF parts = <<>> THEN <<>>
    ELSE IF Len(parts) = 1 THEN parts[1]
    ELSE parts[1] \o <<" ">> \o JoinSpace(Tail(parts))

tokensToText(tokens) ==
    Trim(CollapseWs(JoinSpace([i \in 1..Len(tokens) |-> TokenText(tokens[i])])))

-----------------------------------------------------------------------------
(* Sliding window *)

\* recordMessage(text, tokens, preNormalized) on the aggregator state; the
\* result is the aggregator state after the call and whether it recorded.
RecordKey(text, preNormalized) ==
    IF preNormalized # <<>> THEN preNormalized ELSE normalizeText(text)

StoreTokens(toks, cache, key) ==
    IF toks # <<>> /\ ~MapHas(cache, key) THEN MapSet(cache, key, toks) ELSE cache

BumpCount(counts, key) == ObjSet(counts, key, PlusOne(OrZero(ObjGet(counts, key))))

recordMessage(text, tokens, preNormalized, t) ==
    LET key == RecordKey(text, preNormalized) IN
    IF text = <<>> \/ key = <<>>
    THEN [ok |-> FALSE, counts |-> messageCounts, stamps |-> messageTimestamps,
          tokens |-> messageTokens, recent |-> recent]
    ELSE [ok |-> TRUE,
          counts |-> BumpCount(messageCounts, key),
          stamps |-> ObjSet(messageTimestamps, key, Num(t)),
          tokens |-> StoreTokens(tokens, messageTokens, key),
          recent |-> Append(recent, [text |-> key, ts |-> t])]

\* variant: an entry is too old as soon as its age reaches the window
TooOldAtBound(q, t) == WINDOW_MS > 0 /\ (t - q[1].ts) >= WINDOW_MS

\* variant: the size bound without the test that it is set
OverSizeUnguarded(q) == Len(q) > WINDOW_MAX

\* the loop condition of trimWindow
OverSize(q) == WINDOW_MAX > 0 /\ Len(q) > WINDOW_MAX
TooOld(q, t) == WINDOW_MS > 0 /\ (t - q[1].ts) > WINDOW_MS
\* variant: the head is evicted only when it is over both bounds
TrimCondBoth(q, t) == q # <<>> /\ (OverSize(q) /\ TooOld(q, t))

TrimCond(q, t) == q # <<>> /\ (OverSize(q) \/ TooOld(q, t))

\* messageCounts[t] <= 0 after the decrement
Exhausted(c) == JsLe(c, 0)

\* one iteration of the loop body
TrimStep(st) ==
    LET key == st.recent[1].text
        rest == Tail(st.recent)
    IN  IF ObjIn(st.counts, key)
        THEN LET c == MinusOne(ObjGet(st.counts, key)) IN
             IF Exhausted(c)
             THEN [recent |-> rest,
                   counts |-> ObjDelete(st.counts, key),
                   stamps |-> ObjDelete(st.stamps, key),
                   tokens |-> IF MapHas(st.tokens, key)
                              THEN MapDelete(st.tokens, key) ELSE st.tokens,
                   trimmed |-> st.trimmed + 1]
             ELSE [recent |-> rest,
                   counts |-> ObjSet(st.counts, key, c),
                   stamps |-> st.stamps,
                   tokens |-> st.tokens,
                   trimmed |-> st.trimmed + 1]
        ELSE [st EXCEPT !.recent = rest]

RECURSIVE TrimLoop(_, _)
TrimLoop(st, t) ==
    IF TrimCond(st.recent, t) THEN TrimLoop(TrimStep(st), t) ELSE st

trimWindow(t) ==
    TrimLoop([recent |-> recent, counts |-> messageCounts,
              stamps |-> messageTimestamps, tokens |-> messageTokens,
              trimmed |-> 0], t)

-----------------------------------------------------------------------------
(* Ranking *)

\* the comparator of getTrending; a NaN result counts as 0 in Array.prototype.sort
TsOrZero(stamps, key) ==
    LET x == OrZero(ObjGet(stamps, key)) IN IF x.t = "num" THEN x.v ELSE 0

\* variant: ties broken by the oldest occurrence
CompareTrendingOldestFirst(a, b, stamps) ==
    IF b.val # a.val
    THEN b.val.v - a.val.v
    ELSE TsOrZero(stamps, a.key) - TsOrZero(stamps, b.key)

CompareTrending(a, b, stamps) ==
    IF b.val # a.val
    THEN b.val.v - a.val.v
    ELSE TsOrZero(stamps, b.key) - TsOrZero(stamps, a.key)

\* Array.prototype.sort is stable: x goes behind every element it does not precede
RECURSIVE InsertSorted(_, _, _)
InsertSorted(s, x, stamps) ==
    IF s = <<>> THEN <<x>>
    ELSE IF CompareTrending(x, Head(s), stamps) < 0
         THEN <<x>> \o s
         ELSE <<Head(s)>> \o InsertSorted(Tail(s), x, stamps)

RECURSIVE SortTrending(_, _)
SortTrending(s, stamps) ==
    IF s = <<>> THEN <<>>
    ELSE InsertSorted(SortTrending(SubSeq(s, 1, Len(s) - 1), stamps), s[Len(s)], stamps)

\* s.slice(0, n)
SliceTo(s, n) ==
    IF n >= 0 THEN SubSeq(s, 1, IF n < Len(s) THEN n ELSE Len(s))
    ELSE SubSeq(s, 1, Max(Len(s) + n, 0))

MeetsThreshold(p, threshold) == JsGe(p.val, threshold)

\* getTrending(): the sorted [key, count] pairs
Trending(counts, stamps, threshold, maxEntries) ==
    SliceTo(SortTrending(SelectSeq(counts, LAMBDA p : MeetsThreshold(p, threshold)),
                         stamps),
            maxEntries)

getTrending == Trending(messageCounts, messageTimestamps, SPAM_THRESHOLD, MAX_ENTRIES)

TrendingKeys(tr) == [i \in 1..Len(tr) |-> tr[i].key]

-----------------------------------------------------------------------------
(* Dedup gate *)

\* variant: the comparison of the signatures inverted
IdDuplicateOtherSignature(idMap, id, signature) ==
    MapHas(idMap, id) /\ idMap[id].signature # signature

\* prev && prev.signature === signature
IdDuplicate(idMap, id, signature) ==
    MapHas(idMap, id) /\ idMap[id].signature = signature

\* variant: a single grace period
HandleDuplicateOneGrace(elements, h, signature, t) ==
    /\ MapHas(elements, h)
    /\ elements[h].signature = signature
    /\ (t - elements[h].ts) < ELEMENT_REPROCESS_GRACE_MS

\* prev && prev.signature === signature && (now - prev.ts) < GRACE * 2
HandleDuplicate(elements, h, signature, t) ==
    /\ MapHas(elements, h)
    /\ elements[h].signature = signature
    /\ (t - elements[h].ts) < (ELEMENT_REPROCESS_GRACE_MS * 2)

\* processedIdQueue.push(id) and the eviction of the oldest id over the limit
QueueOverLimit(q) == Len(q) > PROCESSED_ID_LIMIT

RememberId(idMap, idQueue, id, signature, t) ==
    LET m == MapSet(idMap, id, [signature |-> signature, ts |-> t])
        q == Append(idQueue, id)
    IN  IF QueueOverLimit(q)
        THEN [idMap |-> MapDelete(m, Head(q)), idQueue |-> Tail(q)]
        ELSE [idMap |-> m, idQueue |-> q]

\* the dedup part of processMessageEl: whether the element is accepted and the
\* caches after it
DedupGate(el, signature, t) ==
    IF el.id # ""
    THEN IF IdDuplicate(processedIdMap, el.id, signature)
         THEN [accept |-> FALSE, idMap |-> processedIdMap,
               idQueue |-> processedIdQueue, elements |-> processedElements]
         ELSE LET r == RememberId(processedIdMap, processedIdQueue, el.id, signature, t)
              IN [accept |-> TRUE, idMap |-> r.idMap, idQueue |-> r.idQueue,
                  elements |-> processedElements]
    ELSE IF HandleDuplicate(processedElements, el.handle, signature, t)
         THEN [accept |-> FALSE, idMap |-> processedIdMap,
               idQueue |-> processedIdQueue, elements |-> processedElements]
         ELSE [accept |-> TRUE, idMap |-> processedIdMap,
               idQueue |-> processedIdQueue,
               elements |-> MapSet(processedElements, el.handle,
                                   [signature |-> signature, ts |-> t])]

-----------------------------------------------------------------------------
(* Update scheduler *)

NoTimer == [kind |-> "none", due |-> 0]
Timer(kind, due) == [kind |-> kind, due |-> due]

SchedState == [scheduled |-> panelUpdateScheduled, delayId |-> panelDelayId,
               fallbackId |-> panelFallbackId, rafId |-> rafId, timers |-> timers]

\* clearTimeout(id) / cancelAnimationFrame(id)
Cancel(set, id) == set \ {id}

\* variant: scheduleNow() that relies on the frame callback alone
scheduleNowFrameOnly(s, t) ==
    LET raf == Timer("raf", t)
    IN  [scheduled |-> s.scheduled,
         delayId |-> NoTimer,
         rafId |-> raf,
         fallbackId |-> NoTimer,
         timers |-> (Cancel(Cancel(s.timers, s.delayId), s.fallbackId)) \cup {raf}]

\* scheduleNow() at time t
scheduleNow(s, t) ==
    LET raf == Timer("raf", t)
        fb  == Timer("fallback", t + RAF_FALLBACK_MS)
    IN  [scheduled |-> s.scheduled,
         delayId |-> NoTimer,
         rafId |-> raf,
         fallbackId |-> fb,
         timers |-> (Cancel(Cancel(s.timers, s.delayId), s.fallbackId)) \cup {raf, fb}]

\* variant: without the guard on panelUpdateScheduled
NeverScheduled(s) == FALSE

\* if (panelUpdateScheduled) return;
AlreadyScheduled(s) == s.scheduled

\* variant: no delay, whatever the time since the last run
NoThrottleDelay(t, throttle, lastTs) == 0

ThrottleDelay(t, throttle, lastTs) == Max(0, throttle - (t - lastTs))

\* variant: a request made while one is pending starts the timers again
schedulePanelUpdateRestarts(s, t, throttle, lastTs) ==
    LET delay == ThrottleDelay(t, throttle, lastTs)
        s1 == [scheduled |-> TRUE, delayId |-> NoTimer, fallbackId |-> NoTimer,
               rafId |-> NoTimer,
               timers |-> Cancel(Cancel(Cancel(s.timers, s.rafId), s.delayId),
                                 s.fallbackId)]
    IN  IF delay <= 0
        THEN scheduleNow(s1, t)
        ELSE LET d == Timer("delay", t + delay)
             IN [s1 EXCEPT !.delayId = d, !.timers = s1.timers \cup {d}]

\* schedulePanelUpdate() at time t
schedulePanelUpdate(s, t, throttle, lastTs) ==
    IF AlreadyScheduled(s) THEN s
    ELSE LET delay == ThrottleDelay(t, throttle, lastTs)
             s1 == [s EXCEPT !.scheduled = TRUE]
         IN  IF delay <= 0
             THEN scheduleNow(s1, t)
             ELSE LET d == Timer("delay", t + delay)
                  IN [s1 EXCEPT !.delayId = d, !.timers = s1.timers \cup {d}]

\* the cancellations of run()
CancelAll(s) == Cancel(Cancel(Cancel(s.timers, s.rafId), s.delayId), s.fallbackId)

\* variant: run() that leaves the fallback timer outstanding
runCancelKeepsFallback(s) ==
    [scheduled |-> FALSE, delayId |-> NoTimer, fallbackId |-> NoTimer,
     rafId |-> NoTimer, timers |-> Cancel(Cancel(s.timers, s.rafId), s.delayId)]

runCancel(s) ==
    [scheduled |-> FALSE, delayId |-> NoTimer, fallbackId |-> NoTimer,
     rafId |-> NoTimer, timers |-> CancelAll(s)]

SetSched(s) ==
    /\ panelUpdateScheduled' = s.scheduled
    /\ panelDelayId' = s.delayId
    /\ panelFallbackId' = s.fallbackId
    /\ rafId' = s.rafId
    /\ timers' = s.timers

-----------------------------------------------------------------------------
(* Panel *)

RECURSIVE escapeHtml(_)
escapeHtml(s) ==
    IF s = <<>> THEN <<>>
    ELSE (CASE Head(s) = "&" -> <<"&", "a", "m", "p", ";">>
            [] Head(s) = "<" -> <<"&", "l", "t", ";">>
            [] Head(s) = ">" -> <<"&", "g", "t", ";">>
            [] OTHER -> <<Head(s)>>) \o escapeHtml(Tail(s))

TokenHtml(t) ==
    IF t.kind = "emote"
    THEN [tag |-> "img", src |-> t.src, text |-> escapeHtml(t.alt)]
    ELSE [tag |-> "span", src |-> "", text |-> escapeHtml(t.text)]

EntryHtml(key, cache) ==
    LET toks == IF MapHas(cache, key) THEN cache[key] ELSE <<TextToken(key)>>
    IN [i \in 1..Len(toks) |-> TokenHtml(toks[i])]

\* lastPanelContent = ''
EmptyContent == [count |-> -1, entries |-> <<>>, placeholder |-> FALSE]

PanelContent(tr, cache, showEmpty) ==
    [count |-> Len(tr),
     entries |-> [i \in 1..Len(tr) |-> EntryHtml(tr[i].key, cache)],
     placeholder |-> (tr = <<>> /\ showEmpty)]

\* variant: the content delivered is not remembered
updatePanelForgets ==
    LET tr == getTrending
        newContent == PanelContent(tr, messageTokens, showEmptyState)
    IN  /\ trendingTexts' = TrendingKeys(tr)
        /\ lastPanelContent' = lastPanelContent
        /\ panelInnerHTML' = IF newContent = lastPanelContent
                             THEN panelInnerHTML ELSE newContent

\* updatePanel()
updatePanel ==
    LET tr == getTrending
        newContent == PanelContent(tr, messageTokens, showEmptyState)
    IN  /\ trendingTexts' = TrendingKeys(tr)
        /\ IF newContent = lastPanelContent
           THEN UNCHANGED <<lastPanelContent, panelInnerHTML>>
           ELSE /\ lastPanelContent' = newContent
                /\ panelInnerHTML' = newContent

-----------------------------------------------------------------------------
(* Settings *)

SettingsFields == {"spamThreshold", "maxEntries", "windowDuration", "maxMessages",
                   "updateFrequency", "trimInterval", "showEmptyState"}

\* newSettings.f !== undefined ? newSettings.f : old
Given(st, f, old) == IF f \in DOMAIN st THEN st[f] ELSE old

\* the assignments of updateSettings
ApplySettings(st) ==
    /\ SPAM_THRESHOLD' = Given(st, "spamThreshold", SPAM_THRESHOLD)
    /\ MAX_ENTRIES' = Given(st, "maxEntries", MAX_ENTRIES)
    /\ WINDOW_MS' = IF "windowDuration" \in DOMAIN st
                    THEN st["windowDuration"] * MsPerMinute ELSE WINDOW_MS
    /\ WINDOW_MAX' = Given(st, "maxMessages", WINDOW_MAX)
    /\ RENDER_THROTTLE_MS' = Given(st, "updateFrequency", RENDER_THROTTLE_MS)
    /\ TRIM_INTERVAL_MS' = IF "trimInterval" \in DOMAIN st
                           THEN st["trimInterval"] * MsPerSecond ELSE TRIM_INTERVAL_MS
    /\ showEmptyState' = IF "showEmptyState" \in DOMAIN st
                         THEN st["showEmptyState"] = 1 ELSE showEmptyState

-----------------------------------------------------------------------------
(* Handlers *)

\* variant: a rejected observation of an element refreshes the timestamp of
\* its entry in processedElements
processMessageElRefreshes(el, t) ==
    LET text == tokensToText(el.tokens)
        signature == normalizeText(text)
        gate == DedupGate(el, signature, t)
        rec == recordMessage(text, el.tokens, signature, t)
        rejected == [accepted |-> FALSE, sig |-> signature,
                     idMap |-> processedIdMap, idQueue |-> processedIdQueue,
                     elements |-> IF el.id = "" /\ signature # <<>>
                                  THEN MapSet(processedElements, el.handle,
                                              [signature |-> signature, ts |-> t])
                                  ELSE processedElements,
                     counts |-> messageCounts, stamps |-> messageTimestamps,
                     tokens |-> messageTokens, recent |-> recent]
    IN  IF text = <<>> \/ signature = <<>> THEN rejected
        ELSE IF ~gate.accept THEN rejected
        ELSE [accepted |-> TRUE, sig |-> signature,
              idMap |-> gate.idMap, idQueue |-> gate.idQueue,
              elements |-> gate.elements,
              counts |-> rec.counts, stamps |-> rec.stamps,
              tokens |-> rec.tokens, recent |-> rec.recent]

\* variant: the message is recorded before the dedup gate is asked
processMessageElRecordFirst(el, t) ==
    LET text == tokensToText(el.tokens)
        signature == normalizeText(text)
        gate == DedupGate(el, signature, t)
        rec == recordMessage(text, el.tokens, signature, t)
    IN  [accepted |-> (text # <<>> /\ signature # <<>> /\ gate.accept),
         sig |-> signature,
         idMap |-> gate.idMap, idQueue |-> gate.idQueue, elements |-> gate.elements,
         counts |-> rec.counts, stamps |-> rec.stamps,
         tokens |-> rec.tokens, recent |-> rec.recent]

\* variant: without the checks of the text and the signature
processMessageElUnchecked(el, t) ==
    LET text == tokensToText(el.tokens)
        signature == normalizeText(text)
        gate == DedupGate(el, signature, t)
        rec == recordMessage(text, el.tokens, signature, t)
    IN  [accepted |-> gate.accept, sig |-> signature,
         idMap |-> gate.idMap, idQueue |-> gate.idQueue, elements |-> gate.elements,
         counts |-> IF gate.accept THEN rec.counts ELSE messageCounts,
         stamps |-> IF gate.accept THEN rec.stamps ELSE messageTimestamps,
         tokens |-> IF gate.accept THEN rec.tokens ELSE messageTokens,
         recent |-> IF gate.accept THEN rec.recent ELSE recent]

\* processMessageEl(el) at time t: the result and the state it leaves
processMessageEl(el, t) ==
    LET text == tokensToText(el.tokens)
        signature == normalizeText(text)
        gate == DedupGate(el, signature, t)
        rec == recordMessage(text, el.tokens, signature, t)
        rejected == [accepted |-> FALSE, sig |-> signature,
                     idMap |-> processedIdMap, idQueue |-> processedIdQueue,
                     elements |-> processedElements,
                     counts |-> messageCounts, stamps |-> messageTimestamps,
                     tokens |-> messageTokens, recent |-> recent]
    IN  IF text = <<>> \/ signature = <<>> THEN rejected
        ELSE IF ~gate.accept THEN rejected
        ELSE [accepted |-> TRUE, sig |-> signature,
              idMap |-> gate.idMap, idQueue |-> gate.idQueue,
              elements |-> gate.elements,
              counts |-> rec.counts, stamps |-> rec.stamps,
              tokens |-> rec.tokens, recent |-> rec.recent]

\* the scheduler after n calls of schedulePanelUpdate() at time t
RECURSIVE Requested(_, _, _, _, _)
Requested(s, n, t, throttle, lastTs) ==
    IF n = 0 THEN s
    ELSE Requested(schedulePanelUpdate(s, t, throttle, lastTs), n - 1, t, throttle, lastTs)

\* handleChatMutations with one added message element: processMessageEl, whose
\* recordMessage requests an update, and the request made when anything changed
HandleChatMutations(el) ==
    LET r == processMessageEl(el, now) IN
    /\ r.accepted => Len(recent) < MaxWindow
    /\ processedIdMap' = r.idMap
    /\ processedIdQueue' = r.idQueue
    /\ processedElements' = r.elements
    /\ messageCounts' = r.counts
    /\ messageTimestamps' = r.stamps
    /\ messageTokens' = r.tokens
    /\ recent' = r.recent
    /\ SetSched(Requested(SchedState, IF r.accepted THEN 2 ELSE 0,
                          now, RENDER_THROTTLE_MS, lastRenderTs))
    /\ UNCHANGED <<now, ticks, confVars, trimPeriod, sendText, panelVars>>

\* variant: the trim timer that never asks for a panel update
TrimTimerFireSilent ==
    LET r == trimWindow(now) IN
    /\ recent' = r.recent
    /\ messageCounts' = r.counts
    /\ messageTimestamps' = r.stamps
    /\ messageTokens' = r.tokens
    /\ UNCHANGED <<now, ticks, confVars, trimPeriod, sendText, dedupVars, schedVars, panelVars>>

\* variant: the trim requests an update whether it evicted or not
TrimTimerFireAlwaysRequests ==
    LET r == trimWindow(now) IN
    /\ recent' = r.recent
    /\ messageCounts' = r.counts
    /\ messageTimestamps' = r.stamps
    /\ messageTokens' = r.tokens
    /\ SetSched(Requested(SchedState, 1, now, RENDER_THROTTLE_MS, lastRenderTs))
    /\ UNCHANGED <<now, ticks, confVars, trimPeriod, sendText, dedupVars, panelVars>>

\* the setInterval callback of startWindowTrimTimer: trimWindow()
TrimTimerFire ==
    LET r == trimWindow(now) IN
    /\ recent' = r.recent
    /\ messageCounts' = r.counts
    /\ messageTimestamps' = r.stamps
    /\ messageTokens' = r.tokens
    /\ SetSched(Requested(SchedState, IF r.trimmed # 0 THEN 1 ELSE 0,
                          now, RENDER_THROTTLE_MS, lastRenderTs))
    /\ UNCHANGED <<now, ticks, confVars, trimPeriod, sendText, dedupVars, panelVars>>

\* variant: a session change that keeps the identity cache
ClearMessageDataKeepIds ==
    /\ messageCounts' = <<>>
    /\ messageTimestamps' = <<>>
    /\ messageTokens' = EmptyMap
    /\ trendingTexts' = <<>>
    /\ recent' = <<>>
    /\ processedElements' = EmptyMap
    /\ lastPanelContent' = EmptyContent
    /\ SetSched(Requested(SchedState, 1, now, RENDER_THROTTLE_MS, lastRenderTs))
    /\ UNCHANGED <<now, ticks, confVars, trimPeriod, sendText, lastRenderTs, panelInnerHTML,
                   processedIdMap, processedIdQueue>>

\* clearMessageData(), run by checkForStreamChange on a change of channel
ClearMessageData ==
    /\ messageCounts' = <<>>
    /\ messageTimestamps' = <<>>
    /\ messageTokens' = EmptyMap
    /\ trendingTexts' = <<>>
    /\ recent' = <<>>
    /\ processedIdMap' = EmptyMap
    /\ processedIdQueue' = <<>>
    /\ processedElements' = EmptyMap
    /\ lastPanelContent' = EmptyContent
    /\ SetSched(Requested(SchedState, 1, now, RENDER_THROTTLE_MS, lastRenderTs))
    /\ UNCHANGED <<now, ticks, confVars, trimPeriod, sendText, lastRenderTs, panelInnerHTML>>

\* variant: a lowered maxMessages evicts the head of the window at once
UpdateSettingsEvicts(st) ==
    /\ ApplySettings(st)
    /\ SetSched(Requested(SchedState, 1, now, RENDER_THROTTLE_MS', lastRenderTs))
    /\ recent' = IF recent # <<>> /\ WINDOW_MAX' > 0 /\ Len(recent) > WINDOW_MAX'
                 THEN Tail(recent) ELSE recent
    /\ UNCHANGED <<now, ticks, trimPeriod, sendText, messageCounts, messageTimestamps,
                   messageTokens, dedupVars, panelVars>>

\* updateSettings(newSettings), on a SETTINGS_UPDATED message
UpdateSettings(st) ==
    /\ ApplySettings(st)
    /\ SetSched(Requested(SchedState, 1, now, RENDER_THROTTLE_MS', lastRenderTs))
    /\ UNCHANGED <<now, ticks, trimPeriod, sendText, aggVars, dedupVars, panelVars>>

\* variant: the ranking sorts the counters in place
GetTrendingCallInPlace ==
    /\ trendingTexts' = TrendingKeys(getTrending)
    /\ messageCounts' = SortTrending(messageCounts, messageTimestamps)
    /\ UNCHANGED <<now, ticks, confVars, trimPeriod, sendText, messageTimestamps,
                   messageTokens, recent, dedupVars, schedVars,
                   lastRenderTs, lastPanelContent, panelInnerHTML>>

\* window.hivemindDebug.getTrending()
GetTrendingCall ==
    /\ trendingTexts' = TrendingKeys(getTrending)
    /\ UNCHANGED <<now, ticks, confVars, trimPeriod, sendText, aggVars, dedupVars, schedVars,
                   lastRenderTs, lastPanelContent, panelInnerHTML>>

\* panel.querySelectorAll('.entry')[i - 1]: the panel shows an entry at slot i
SlotShown(panel, i) == i >= 1 /\ i <= Len(panel.entries)

\* triggerSlot(i): whether fillChatInput is called, and with which text
triggerSlot(i) ==
    IF ~SlotShown(panelInnerHTML, i) THEN [fill |-> FALSE, text |-> <<>>]
    ELSE IF i > Len(trendingTexts) THEN [fill |-> FALSE, text |-> <<>>]
    ELSE LET key == trendingTexts[i] IN
         [fill |-> TRUE,
          text |-> IF MapHas(messageTokens, key)
                   THEN tokensToText(messageTokens[key]) ELSE key]

\* a click on entry i of the panel, or the key Shift+i
TriggerSlot(i) ==
    /\ sendText' = IF triggerSlot(i).fill THEN triggerSlot(i).text ELSE sendText
    /\ UNCHANGED <<now, ticks, confVars, trimPeriod, aggVars, dedupVars, schedVars,
                   panelVars>>

\* run(): the callback of requestAnimationFrame and of the fallback timer
run(s) ==
    /\ SetSched(runCancel(s))
    /\ lastRenderTs' = now
    /\ updatePanel
    /\ UNCHANGED <<now, ticks, confVars, trimPeriod, sendText, aggVars, dedupVars>>

\* a callback leaves the set of registered callbacks when it is called
Fired(tm) == [SchedState EXCEPT !.timers = timers \ {tm}]

\* the delay timer calls scheduleNow
DelayTimerFire ==
    \E tm \in timers :
        /\ tm.kind = "delay"
        /\ now >= tm.due
        /\ SetSched(scheduleNow(Fired(tm), now))
        /\ UNCHANGED <<now, ticks, confVars, trimPeriod, sendText, aggVars, dedupVars, panelVars>>

\* the frame callback calls run
RafFire ==
    \E tm \in timers :
        /\ tm.kind = "raf"
        /\ run(Fired(tm))

\* the fallback timer calls run
FallbackFire ==
    \E tm \in timers :
        /\ tm.kind = "fallback"
        /\ now >= tm.due
        /\ run(Fired(tm))

\* the WeakMap drops the entry of an element that is no longer reachable
ElementCollected(h) ==
    /\ MapHas(processedElements, h)
    /\ processedElements' = MapDelete(processedElements, h)
    /\ UNCHANGED <<now, ticks, confVars, trimPeriod, sendText, aggVars, processedIdMap,
                   processedIdQueue, schedVars, panelVars>>

\* the clock advances by d
Tick(d) ==
    /\ ticks < MaxTicks
    /\ now' = now + d
    /\ ticks' = ticks + 1
    /\ UNCHANGED <<confVars, trimPeriod, sendText, aggVars, dedupVars, schedVars, panelVars>>

-----------------------------------------------------------------------------
(* The state after initializeHivemind: settings loaded from storage by      *)
(* loadSettings, trim timer started by startWindowTrimTimer                 *)

InitWith(stored) ==
    /\ now = 0
    /\ ticks = 0
    /\ \E st \in stored :
        /\ SPAM_THRESHOLD = st["spamThreshold"]
        /\ MAX_ENTRIES = st["maxEntries"]
        /\ WINDOW_MS = st["windowDuration"] * MsPerMinute
        /\ WINDOW_MAX = st["maxMessages"]
        /\ RENDER_THROTTLE_MS = st["updateFrequency"]
        /\ TRIM_INTERVAL_MS = st["trimInterval"] * MsPerSecond
        /\ showEmptyState = (st["showEmptyState"] = 1)
        /\ trimPeriod = st["trimInterval"] * MsPerSecond
    /\ messageCounts = <<>>
    /\ messageTimestamps = <<>>
    /\ messageTokens = EmptyMap
    /\ recent = <<>>
    /\ trendingTexts = <<>>
    /\ processedIdMap = EmptyMap
    /\ processedIdQueue = <<>>
    /\ processedElements = EmptyMap
    /\ panelUpdateScheduled = FALSE
    /\ lastRenderTs = 0
    /\ lastPanelContent = EmptyContent
    /\ panelDelayId = NoTimer
    /\ panelFallbackId = NoTimer
    /\ rafId = NoTimer
    /\ timers = {}
    /\ panelInnerHTML = EmptyContent
    /\ sendText = <<>>

Settings(spam, maxE, dur, maxM, freq, trimI, showE) ==
    [f \in SettingsFields |->
        CASE f = "spamThreshold" -> spam
          [] f = "maxEntries" -> maxE
          [] f = "windowDuration" -> dur
          [] f = "maxMessages" -> maxM
          [] f = "updateFrequency" -> freq
          [] f = "trimInterval" -> trimI
          [] OTHER -> showE]

gg == <<"g", "g">>
wp == <<"w", "p">>

ElementsOf(ids, handles, contents) ==
    {[id |-> i, handle |-> "", tokens |-> c] : i \in ids, c \in contents}
    \cup {[id |-> "", handle |-> h, tokens |-> c] : h \in handles, c \in contents}

-----------------------------------------------------------------------------
(* The sliding window: message elements without a stable id, trims,        *)
(* session changes, the clock in steps of one minute                       *)

WindowContents == {
    <<EmoteToken(<<"G", "G">>, "cdn/gg.png")>>,
    <<TextToken(wp)>>,
    <<TextToken(ProtoKey)>>,
    <<>> }

WindowElements == ElementsOf({}, {"h1"}, WindowContents)

WindowSettings == { Settings(1, 2, 1, 2, 50, 5, 0), Settings(1, 2, 0, 0, 50, 5, 0) }

InitWindow == InitWith(WindowSettings)

NextWindow ==
    \/ \E el \in WindowElements : HandleChatMutations(el)
    \/ ElementCollected("h1")
    \/ TrimTimerFire
    \/ ClearMessageData
    \/ Tick(MsPerMinute)

SpecWindow == InitWindow /\ [][NextWindow]_vars

-----------------------------------------------------------------------------
(* Properties of the sliding window *)

WindowCount(q, s) == Cardinality({i \in 1..Len(q) : q[i].text = s})
WindowSigs(q) == {q[i].text : i \in 1..Len(q)}
KnownSigs == ObjKeys(messageCounts) \cup WindowSigs(recent) \cup DOMAIN messageTokens

StoredCount(counts, s) == IF ObjOwn(counts, s) THEN ObjGet(counts, s) ELSE Num(0)

\* C1: for every signature the stored counter equals the number of window
\* entries that carry the signature; a signature without a counter has none.
C1_CounterEqualsWindowCount ==
    \A s \in KnownSigs : StoredCount(messageCounts, s) = Num(WindowCount(recent, s))

\* C2: the signatures with a TokenCache entry are exactly the signatures whose
\* counter is greater than 0.
C2_TokenCacheIsLiveSet ==
    DOMAIN messageTokens = {s \in KnownSigs : JsGe(StoredCount(messageCounts, s), 1)}

Distinct(q) == \A i, j \in 1..Len(q) : q[i].text = q[j].text => i = j
NoneTooOld(q, t) == WINDOW_MS <= 0 \/ \A i \in 1..Len(q) : t - q[i].ts <= WINDOW_MS

\* C5: with windowMaxSize = K > 0 and no entry over the age bound, a window of
\* K+1 entries with pairwise distinct signatures is trimmed to the K most recent,
\* each with count 1, and the earliest signature is in neither CounterState nor
\* TokenCache.
C5_SizeEvictionKeepsMostRecent ==
    LET r == trimWindow(now) IN
    (WINDOW_MAX > 0 /\ Len(recent) = WINDOW_MAX + 1 /\ Distinct(recent)
        /\ NoneTooOld(recent, now))
    => /\ r.recent = Tail(recent)
       /\ \A s \in WindowSigs(Tail(recent)) : StoredCount(r.counts, s) = Num(1)
       /\ ObjKeys(r.counts) = WindowSigs(Tail(recent))
       /\ recent[1].text \notin ObjKeys(r.counts)
       /\ recent[1].text \notin DOMAIN r.tokens

IsSuffix(q, full) ==
    Len(q) <= Len(full) /\ q = SubSeq(full, Len(full) - Len(q) + 1, Len(full))

\* C6: a trim at time now evicts every entry older than windowMaxAgeMs > 0 and,
\* when the size bound does not apply, keeps every entry that is not; a
\* signature in the ranking has an entry in the window, so a signature evicted
\* down to count 0 stays out of the ranking until it is ingested again.
C6_AgeEviction ==
    LET r == trimWindow(now)
        young == SelectSeq(recent, LAMBDA e : now - e.ts <= WINDOW_MS)
    IN  /\ IsSuffix(r.recent, recent)
        /\ WINDOW_MS > 0 => \A i \in 1..Len(r.recent) : now - r.recent[i].ts <= WINDOW_MS
        /\ (WINDOW_MS > 0 /\ ~OverSize(recent)) => r.recent = young
        /\ \A s \in WindowSigs(recent) \ WindowSigs(r.recent) :
              \A i \in 1..Len(Trending(r.counts, r.stamps, SPAM_THRESHOLD, MAX_ENTRIES)) :
                  Trending(r.counts, r.stamps, SPAM_THRESHOLD, MAX_ENTRIES)[i].key # s
        /\ \A i \in 1..Len(getTrending) : getTrending[i].key \in WindowSigs(recent)

\* an entry ingested at 0 was evicted by age and its signature forgotten
C6_Witness ==
    /\ WINDOW_MS > 0
    /\ now > WINDOW_MS
    /\ recent = <<>>
    /\ messageCounts = <<>>
    /\ MapHas(processedElements, "h1")
    /\ processedElements["h1"].ts = 0

\* the number of window entries with signature s that the step evicts
Evicted(s) == WindowCount(recent, s) - WindowCount(recent', s)

\* C24: every stored counter is a number of at least 1; a counter leaves
\* CounterState only by a session change or in the trim step that evicts as
\* many entries of its signature as it counted, and its timestamp leaves with
\* it.
C24_CountersPositive ==
    /\ [](\A i \in 1..Len(messageCounts) : JsGe(messageCounts[i].val, 1))
    /\ [][\A s \in ObjKeys(messageCounts) \ ObjKeys(messageCounts') :
            /\ s \notin ObjKeys(messageTimestamps')
            /\ \/ ClearMessageData
               \/ /\ TrimTimerFire
                  /\ ObjGet(messageCounts, s) = Num(Evicted(s))]_vars

\* C25: with windowMaxSize > 0 the window never holds more than windowMaxSize
\* entries, also between two trims.
C25_WindowBounded == WINDOW_MAX > 0 => Len(recent) <= WINDOW_MAX

\* C27: the window a trim at time now leaves is a tail of the window before
\* it, holds at most windowMaxSize entries when windowMaxSize > 0 and no entry
\* older than windowMaxAgeMs when windowMaxAgeMs > 0; a window over the size
\* bound loses its head, and so does a window whose head is over the age
\* bound; a window within both bounds is left as it is.  Timestamps in the
\* window never decrease.
C27_TrimPostcondition ==
    /\ [](LET r == trimWindow(now)
              overSize == WINDOW_MAX > 0 /\ Len(recent) > WINDOW_MAX
              headOld == /\ recent # <<>>
                         /\ WINDOW_MS > 0
                         /\ now - recent[1].ts > WINDOW_MS
          IN  /\ \A i, j \in 1..Len(recent) : i <= j => recent[i].ts <= recent[j].ts
              /\ IsSuffix(r.recent, recent)
              /\ WINDOW_MAX > 0 => Len(r.recent) <= WINDOW_MAX
              /\ WINDOW_MS > 0
                 => \A i \in 1..Len(r.recent) : now - r.recent[i].ts <= WINDOW_MS
              /\ overSize => Len(r.recent) < Len(recent)
              /\ headOld => Len(r.recent) < Len(recent)
              /\ (~overSize /\ ~headOld) => r.recent = recent)
    /\ [][TrimTimerFire => recent' = trimWindow(now).recent]_vars

\* gg, wp and gg were counted at 0 and a trim at 0 evicted the first gg by
\* the size bound alone
C27_Witness ==
    /\ WINDOW_MAX = 2
    /\ WINDOW_MS > 0
    /\ now = 0
    /\ recent = <<[text |-> wp, ts |-> 0], [text |-> gg, ts |-> 0]>>
    /\ messageCounts = <<[key |-> gg, val |-> Num(1)], [key |-> wp, val |-> Num(1)]>>

-----------------------------------------------------------------------------
(* The dedup gate: message elements with and without a stable id, the clock *)
(* in steps of the element grace period                                     *)

DedupContents == { <<TextToken(gg)>>, <<TextToken(wp)>> }

DedupIds == {"a", "b"}

DedupElements ==
    ElementsOf({"a"}, {}, DedupContents)
        \cup ElementsOf({"b"}, {}, {<<TextToken(gg)>>})
        \cup ElementsOf({}, {"h1"}, {<<TextToken(wp)>>})

DedupSettings == { Settings(1, 2, 0, 2, 50, 5, 0) }

InitDedup == InitWith(DedupSettings)

NextDedup ==
    \/ \E el \in DedupElements : HandleChatMutations(el)
    \/ TrimTimerFire
    \/ ClearMessageData
    \/ Tick(ELEMENT_REPROCESS_GRACE_MS)

SpecDedup == InitDedup /\ [][NextDedup]_vars

SigOf(el) == normalizeText(tokensToText(el.tokens))

\* the step ingests an element with this id under another signature
IngestsUnderOtherSignature(id, signature) ==
    \E el \in DedupElements :
        el.id = id /\ SigOf(el) # <<>> /\ SigOf(el) # signature /\ HandleChatMutations(el)

\* the step accepts an element with an id while the identity queue is full, so
\* that the oldest id is shifted out and deleted from the identity cache
EvictingStep ==
    \E el \in DedupElements :
        /\ el.id # ""
        /\ processMessageEl(el, now).accepted
        /\ QueueOverLimit(Append(processedIdQueue, el.id))
        /\ HandleChatMutations(el)

\* the identity cache holds the id with this signature
CachedUnder(idMap, id, signature) ==
    id \in DOMAIN idMap /\ idMap[id].signature = signature

-----------------------------------------------------------------------------
(* The grace period of elements without a stable id: one element whose     *)
(* content changes, the clock in steps of the element grace period          *)

GraceContents == { <<TextToken(gg)>>, <<TextToken(wp)>>, <<>> }

\* contents without a signature: no tokens, a zero-width character, blanks, an
\* emote without alt text
MalformedContents ==
    { <<>>, <<TextToken(<<"ZWSP">>)>>, <<TextToken(<<" ">>), TextToken(<<"BOM">>)>>,
      <<EmoteToken(<<>>, "cdn/x.png")>> }

GraceElements ==
    ElementsOf({}, {"h1"}, GraceContents) \cup ElementsOf({"a"}, {"h1"}, MalformedContents)

GraceSettings == { Settings(1, 2, 0, 2, 50, 5, 0) }

InitGrace == InitWith(GraceSettings)

NextGrace ==
    \/ \E el \in GraceElements : HandleChatMutations(el)
    \/ ElementCollected("h1")
    \/ TrimTimerFire
    \/ ClearMessageData
    \/ Tick(ELEMENT_REPROCESS_GRACE_MS)

SpecGrace == InitGrace /\ [][NextGrace]_vars

\* C4: an ingest of an element without id (with a signature) is rejected
\* exactly when the handle cache holds the element with the same signature
\* and less than 2 x ELEMENT_REPROCESS_GRACE_MS have passed since the entry's
\* timestamp; a rejected ingest counts nothing, an accepted one counts once
\* and overwrites the entry with the signature and the time of the ingest.
C4_HandleGrace ==
    \A el \in GraceElements :
        (el.id = "" /\ SigOf(el) # <<>>)
        => LET r == processMessageEl(el, now)
               h == el.handle
               within == /\ MapHas(processedElements, h)
                         /\ processedElements[h].signature = SigOf(el)
                         /\ now - processedElements[h].ts < 2 * ELEMENT_REPROCESS_GRACE_MS
           IN  /\ ~r.accepted <=> within
               /\ ~r.accepted => (r.counts = messageCounts /\ r.recent = recent
                                  /\ r.elements = processedElements)
               /\ r.accepted =>
                    /\ StoredCount(r.counts, SigOf(el)).v
                         = StoredCount(messageCounts, SigOf(el)).v + 1
                    /\ r.elements[h] = [signature |-> SigOf(el), ts |-> now]

\* the element was counted at 0, and again under the same signature at exactly
\* 2 x ELEMENT_REPROCESS_GRACE_MS
C4_Witness ==
    /\ recent = <<[text |-> gg, ts |-> 0],
                  [text |-> gg, ts |-> 2 * ELEMENT_REPROCESS_GRACE_MS]>>
    /\ MapHas(processedElements, "h1")
    /\ processedElements["h1"] = [signature |-> gg, ts |-> 2 * ELEMENT_REPROCESS_GRACE_MS]
    /\ processedIdMap = EmptyMap

-----------------------------------------------------------------------------
(* Ranking: message elements under two settings, ranking on request, the   *)
(* clock in steps of one second                                             *)

RankContents == { <<TextToken(gg)>>, <<TextToken(wp)>>, <<TextToken(ProtoKey)>> }

RankElements == ElementsOf({}, {"h1"}, RankContents)

RankSettings == { Settings(2, 1, 0, 0, 50, 5, 0), Settings(1, 2, 0, 0, 50, 5, 0) }

InitRank == InitWith(RankSettings)

NextRank ==
    \/ \E el \in RankElements : HandleChatMutations(el)
    \/ ElementCollected("h1")
    \/ GetTrendingCall
    \/ ClearMessageData
    \/ Tick(MsPerSecond)

SpecRank == InitRank /\ [][NextRank]_vars

\* lastSeenAt of a signature, the time of its latest window entry
LastSeenAt(q, s) ==
    LET at == {q[i].ts : i \in {j \in 1..Len(q) : q[j].text = s}}
    IN  IF at = {} THEN 0 ELSE CHOOSE t \in at : \A u \in at : u <= t

\* C35: in every reachable state messageTimestamps has the same keys as
\* messageCounts, and the timestamp kept for a signature is the largest
\* timestamp of the window entries with that signature (so no timestamp is
\* kept for a signature without a window entry).
C35_LastSeenMatchesWindow ==
    /\ ObjKeys(messageTimestamps) = ObjKeys(messageCounts)
    /\ \A s \in ObjKeys(messageTimestamps) :
          /\ s \in WindowSigs(recent)
          /\ ObjGet(messageTimestamps, s) = Num(LastSeenAt(recent, s))

RankKeys == {getTrending[i].key : i \in 1..Len(getTrending)}

RanksAbove(q, s) ==
    {u \in WindowSigs(q) :
        /\ u # s
        /\ WindowCount(q, u) >= SPAM_THRESHOLD
        /\ \/ WindowCount(q, u) > WindowCount(q, s)
           \/ /\ WindowCount(q, u) = WindowCount(q, s)
              /\ LastSeenAt(q, u) >= LastSeenAt(q, s)}

\* C8: a signature counted fewer than spamThreshold times is not in the
\* ranking, and one counted at least spamThreshold times is in it whenever
\* fewer than maxEntries signatures rank above it.
C8_ThresholdFilter ==
    \A s \in WindowSigs(recent) :
        /\ WindowCount(recent, s) < SPAM_THRESHOLD => s \notin RankKeys
        /\ (WindowCount(recent, s) >= SPAM_THRESHOLD
            /\ Cardinality(RanksAbove(recent, s)) < MAX_ENTRIES) => s \in RankKeys

\* the counters of the example: gg 3 times, wp 2 times, hi once
ExampleCounts ==
    <<[key |-> gg, val |-> Num(3)], [key |-> wp, val |-> Num(2)],
      [key |-> <<"h", "i">>, val |-> Num(1)]>>

ExampleStamps ==
    <<[key |-> gg, val |-> Num(2)], [key |-> wp, val |-> Num(4)],
      [key |-> <<"h", "i">>, val |-> Num(5)]>>

\* C9: the ranking has at most maxEntries entries, and no signature that
\* meets the threshold and is left out was counted more often than one that
\* is in it; with spamThreshold 2, maxEntries 2 and gg = 3, wp = 2, hi = 1
\* the ranking is gg 3, wp 2.
C9_TopOfOrdering ==
    /\ Len(getTrending) <= MAX_ENTRIES
    /\ \A s \in WindowSigs(recent) \ RankKeys : \A u \in RankKeys :
          WindowCount(recent, s) >= SPAM_THRESHOLD
          => WindowCount(recent, s) <= WindowCount(recent, u)
    /\ Trending(ExampleCounts, ExampleStamps, 2, 2)
         = <<[key |-> gg, val |-> Num(3)], [key |-> wp, val |-> Num(2)]>>

\* C22: the ranking is deterministic and reads only: a call leaves the window,
\* the counters, the timestamps, the token cache and both dedup caches as they
\* are, writes the ranked signatures to the last ranked list, and a second
\* call after it returns the same list.
C22_RankReadOnly ==
    [][GetTrendingCall
       => /\ UNCHANGED <<aggVars, dedupVars>>
          /\ trendingTexts' = TrendingKeys(getTrending)
          /\ getTrending' = getTrending]_vars

\* gg was counted twice and wp once after it, the threshold is 2, and the
\* last ranked list holds gg alone
C22_Witness ==
    /\ SPAM_THRESHOLD = 2
    /\ Len(recent) = 3
    /\ messageCounts = <<[key |-> gg, val |-> Num(2)], [key |-> wp, val |-> Num(1)]>>
    /\ trendingTexts = <<gg>>

-----------------------------------------------------------------------------
(* The update scheduler: requests from message elements, settings updates  *)
(* and session changes, the timer and frame callbacks, the clock in steps  *)
(* of the fallback period                                                   *)

SchedContents == { <<TextToken(gg)>> }

SchedElements == ElementsOf({}, {"h1"}, SchedContents)

SchedSettings == { Settings(1, 2, 0, 0, 50, 5, 1) }

SchedUpdates == { [updateFrequency |-> 25], [updateFrequency |-> 100], [spamThreshold |-> 2] }

InitSched == InitWith(SchedSettings)

NextSched ==
    \/ \E el \in SchedElements : HandleChatMutations(el)
    \/ ElementCollected("h1")
    \/ \E st \in SchedUpdates : UpdateSettings(st)
    \/ ClearMessageData
    \/ DelayTimerFire
    \/ RafFire
    \/ FallbackFire
    \/ Tick(RAF_FALLBACK_MS)

SpecSched == InitSched /\ [][NextSched]_vars

\* the callbacks of one pending recomputation: the delay timer alone, or the
\* frame callback with its fallback timer, either of which cancels the other
OnePending ==
    \/ /\ timers = {panelDelayId}
       /\ panelDelayId.kind = "delay"
       /\ rafId = NoTimer
       /\ panelFallbackId = NoTimer
    \/ /\ timers = {rafId, panelFallbackId}
       /\ rafId.kind = "raf"
       /\ panelFallbackId.kind = "fallback"
       /\ panelDelayId = NoTimer

\* C10: at most one recomputation is pending: no callback is registered while
\* none is scheduled, the callbacks of exactly one are registered while one is,
\* a request made while one is pending changes nothing, and a recomputation
\* happens only when one is pending and leaves none pending.
C10_AtMostOnePending ==
    /\ [](/\ ~panelUpdateScheduled
             => (timers = {} /\ panelDelayId = NoTimer /\ rafId = NoTimer
                 /\ panelFallbackId = NoTimer)
          /\ panelUpdateScheduled
             => /\ OnePending
                /\ schedulePanelUpdate(SchedState, now, RENDER_THROTTLE_MS, lastRenderTs)
                     = SchedState)
    /\ [][(RafFire \/ FallbackFire)
          => (panelUpdateScheduled /\ ~panelUpdateScheduled' /\ timers' = {})]_vars

\* two messages were counted, four requests made, and one recomputation is
\* pending and none has happened
C10_Witness ==
    /\ Len(recent) = 2
    /\ panelUpdateScheduled
    /\ Cardinality(timers) = 1
    /\ lastRenderTs = 0
    /\ panelInnerHTML = EmptyContent

\* the step makes a recomputation pending
RequestStep == ~panelUpdateScheduled /\ panelUpdateScheduled'

\* the time from which the pending recomputation can run: when the delay timer
\* is due, or the time the frame callback was requested
EarliestRun(delay, frame) == IF delay # NoTimer THEN delay.due ELSE frame.due

\* the time the pending recomputation runs when no frame callback fires and
\* every timer fires when it is due: the fallback timer is set when the delay
\* timer fires
LatestRun(delay, fallback) ==
    IF delay # NoTimer THEN delay.due + RAF_FALLBACK_MS ELSE fallback.due

\* C11: a recomputation that a request makes pending runs no later than
\* rafFallbackMs after the request, also when no frame callback fires.
C11_RunsWithinFallback ==
    [][RequestStep
       => LatestRun(panelDelayId', panelFallbackId') <= now + RAF_FALLBACK_MS]_vars

\* C12: a recomputation starts no sooner than renderThrottleMs after the start
\* of the previous one: a request schedules it for lastRenderTs plus the
\* throttle or later, while it is pending it is not moved forward and
\* lastRenderTs stays, and it runs at or after the scheduled time and sets
\* lastRenderTs to the time it runs.
C12_ThrottledApart ==
    [][/\ RequestStep
          => /\ EarliestRun(panelDelayId', rafId') >= lastRenderTs + RENDER_THROTTLE_MS'
             /\ EarliestRun(panelDelayId', rafId') >= now
             /\ lastRenderTs' = lastRenderTs
       /\ (panelUpdateScheduled /\ panelUpdateScheduled')
          => /\ EarliestRun(panelDelayId', rafId') >= EarliestRun(panelDelayId, rafId)
             /\ lastRenderTs' = lastRenderTs
       /\ (RafFire \/ FallbackFire)
          => /\ panelUpdateScheduled
             /\ now >= EarliestRun(panelDelayId, rafId)
             /\ lastRenderTs' = now]_vars

\* a recomputation ran at lastRenderTs > 0, and the next one is held back by
\* the delay timer until lastRenderTs + renderThrottleMs
C12_Witness ==
    /\ lastRenderTs > 0
    /\ panelUpdateScheduled
    /\ panelDelayId # NoTimer
    /\ panelDelayId.due = lastRenderTs + RENDER_THROTTLE_MS
    /\ panelDelayId.due > now

\* the step is one of the handlers that request an update
RequestingStep ==
    \/ \E el \in SchedElements : HandleChatMutations(el)
    \/ \E st \in SchedUpdates : UpdateSettings(st)
    \/ ClearMessageData

\* C31: a request made while a recomputation is pending leaves the pending
\* flag, the delay timer, the frame callback and the fallback timer as they
\* are, so that the pending recomputation fires when it would have fired
\* without the request; this holds also for a request made with another
\* throttle than the one the pending recomputation was scheduled with.
C31_PendingNotPostponed ==
    /\ [](panelUpdateScheduled
          => \A st \in SchedUpdates :
                schedulePanelUpdate(SchedState, now,
                                    Given(st, "updateFrequency", RENDER_THROTTLE_MS),
                                    lastRenderTs) = SchedState)
    /\ [][(panelUpdateScheduled /\ RequestingStep) => UNCHANGED schedVars]_vars

\* the delay timer set at 0 is still pending at 200, after a second message
\* was counted and made its request at 200
C31_Witness ==
    /\ panelUpdateScheduled
    /\ panelDelayId = Timer("delay", RENDER_THROTTLE_MS)
    /\ now = RAF_FALLBACK_MS
    /\ Len(recent) = 2
    /\ recent[2].ts = RAF_FALLBACK_MS
    /\ timers = {panelDelayId}

\* C38: whichever outstanding timer runs the recomputation, no timer is
\* outstanding afterwards, and the delay timer leaves exactly the frame
\* callback and the fallback timer; a recomputation is made only by the frame
\* callback or the fallback timer, it starts with the pending flag set and
\* ends with it clear; the flag is cleared only by a recomputation and set
\* only by a handler that calls schedulePanelUpdate(). Recomputations and
\* flag-setting requests therefore alternate, beginning with a request.
C38_OneRecomputationPerPeriod ==
    /\ [](\A tm \in timers :
            /\ panelUpdateScheduled
            /\ tm.kind # "delay" => runCancel(Fired(tm)).timers = {}
            /\ tm.kind = "delay"
               => LET s == scheduleNow(Fired(tm), now)
                  IN  /\ s.timers = {s.rafId, s.fallbackId}
                      /\ runCancel([s EXCEPT !.timers = @ \ {s.rafId}]).timers = {}
                      /\ runCancel([s EXCEPT !.timers = @ \ {s.fallbackId}]).timers = {})
    /\ [][/\ (RafFire \/ FallbackFire)
             => (panelUpdateScheduled /\ ~panelUpdateScheduled' /\ lastRenderTs' = now)
          /\ (panelUpdateScheduled /\ ~panelUpdateScheduled')
             => ((RafFire \/ FallbackFire) /\ timers' = {})
          /\ (~panelUpdateScheduled /\ panelUpdateScheduled') => RequestingStep
          /\ (lastRenderTs' # lastRenderTs \/ panelInnerHTML' # panelInnerHTML)
             => (RafFire \/ FallbackFire)
          /\ DelayTimerFire
             => (panelUpdateScheduled /\ panelUpdateScheduled'
                 /\ UNCHANGED <<lastRenderTs, panelInnerHTML, lastPanelContent>>)]_vars

\* the message counted at 200 was rendered at 200 by the frame callback, and
\* the fallback timer due at 400 is no longer outstanding
C38_Witness ==
    /\ now = RAF_FALLBACK_MS
    /\ lastRenderTs = now
    /\ ~panelUpdateScheduled
    /\ timers = {}
    /\ Len(recent) = 1
    /\ recent[1].ts = now
    /\ panelInnerHTML.count = 1

\* the serialized ranking of the current state
Serialized == PanelContent(getTrending, messageTokens, showEmptyState)

\* C30: a recomputation leaves none pending, writes the ranked signatures to
\* the last ranked list, and delivers the serialized ranking to the panel only
\* when it differs from the content delivered last; otherwise the panel and
\* the remembered content stay as they are.  The remembered content is the
\* content of the panel, or empty after a session change, so that after every
\* recomputation the panel shows the current ranking.
C30_DeliversOnlyChanges ==
    /\ [](lastPanelContent # EmptyContent => panelInnerHTML = lastPanelContent)
    /\ [][(RafFire \/ FallbackFire)
          => /\ ~panelUpdateScheduled'
             /\ trendingTexts' = TrendingKeys(getTrending)
             /\ IF Serialized = lastPanelContent
                THEN UNCHANGED <<lastPanelContent, panelInnerHTML>>
                ELSE lastPanelContent' = Serialized /\ panelInnerHTML' = Serialized
             /\ panelInnerHTML' = Serialized]_vars

\* gg was counted at 0 and again at 200, the last recomputation ran at 400,
\* none is pending, and the panel shows the one entry
C30_Witness ==
    /\ Len(recent) = 2
    /\ recent[2].ts = RAF_FALLBACK_MS
    /\ lastRenderTs = 2 * RAF_FALLBACK_MS
    /\ ~panelUpdateScheduled
    /\ panelInnerHTML.count = 1
    /\ lastPanelContent = panelInnerHTML

\* the state a session change leaves: nothing in the window, the counters,
\* the timestamps, the token cache, the dedup caches and the last ranked list
SessionEmpty(q, counts, stamps, tokens, idMap, idQueue, elements, texts) ==
    /\ q = <<>>
    /\ counts = <<>>
    /\ stamps = <<>>
    /\ tokens = EmptyMap
    /\ idMap = EmptyMap
    /\ idQueue = <<>>
    /\ elements = EmptyMap
    /\ texts = <<>>

GateRejects(el) ==
    /\ SigOf(el) # <<>>
    /\ IF el.id # ""
       THEN CachedUnder(processedIdMap, el.id, SigOf(el))
       ELSE /\ el.handle \in DOMAIN processedElements
            /\ processedElements[el.handle].signature = SigOf(el)
            /\ now - processedElements[el.handle].ts < 2 * ELEMENT_REPROCESS_GRACE_MS

\* C14: an ingest that the dedup gate rejects leaves the window, the counters,
\* the timestamps and the token cache as they are and requests no update.
C14_RejectChangesNothing ==
    /\ [](\A el \in DedupElements :
            GateRejects(el)
            => LET r == processMessageEl(el, now)
               IN  /\ ~r.accepted
                   /\ r.recent = recent
                   /\ r.counts = messageCounts
                   /\ r.stamps = messageTimestamps
                   /\ r.tokens = messageTokens)
    /\ [][\A el \in DedupElements :
            (GateRejects(el) /\ HandleChatMutations(el))
            => UNCHANGED <<aggVars, schedVars>>]_vars

\* id a and element h1 are cached under the signatures of two counted messages
\* and a further ingest of either is rejected
C14_Witness ==
    /\ Len(recent) = 2
    /\ GateRejects([id |-> "a", handle |-> "", tokens |-> <<TextToken(gg)>>])
    /\ GateRejects([id |-> "", handle |-> "h1", tokens |-> <<TextToken(wp)>>])
    /\ panelUpdateScheduled

\* C15: an ingest without tokens, or whose text has the empty signature, is
\* dropped: the window, the counters, the timestamps, the token cache and both
\* dedup caches stay as they are, with an id and without.
C15_MalformedDropped ==
    /\ [](\A el \in GraceElements :
            (el.tokens = <<>> \/ SigOf(el) = <<>>)
            => LET r == processMessageEl(el, now)
               IN  /\ ~r.accepted
                   /\ r.recent = recent
                   /\ r.counts = messageCounts
                   /\ r.stamps = messageTimestamps
                   /\ r.tokens = messageTokens
                   /\ r.idMap = processedIdMap
                   /\ r.idQueue = processedIdQueue
                   /\ r.elements = processedElements)
    /\ [][\A el \in GraceElements :
            ((el.tokens = <<>> \/ SigOf(el) = <<>>) /\ HandleChatMutations(el))
            => UNCHANGED vars]_vars

\* the element h1 was counted under gg; ingests of it without tokens and with
\* only a zero-width character find it cached and leave it so
C15_Witness ==
    /\ recent # <<>>
    /\ MapHas(processedElements, "h1")
    /\ processedElements["h1"].signature = gg
    /\ \A c \in MalformedContents :
          /\ normalizeText(tokensToText(c)) = <<>>
          /\ ~processMessageEl([id |-> "", handle |-> "h1", tokens |-> c], now).accepted
    /\ tokensToText(<<TextToken(<<"ZWSP">>)>>) # <<>>

-----------------------------------------------------------------------------
(* Settings: updates with values inside and outside the ranges of the      *)
(* settings page, message elements, trims, ranking on request, the clock   *)
(* in steps of one minute                                                   *)

ConfigContents == { <<TextToken(gg)>>, <<TextToken(wp)>> }

ConfigElements == ElementsOf({}, {"h1"}, ConfigContents)

ConfigSettings == { Settings(1, 2, 0, 0, 50, 5, 0) }

ConfigUpdates ==
    { [spamThreshold |-> 0, maxEntries |-> -1, updateFrequency |-> -25, trimInterval |-> 0],
      [spamThreshold |-> 2, maxEntries |-> 1, trimInterval |-> 2],
      [windowDuration |-> -1, maxMessages |-> -1],
      [windowDuration |-> 1, maxMessages |-> 1] }

InitConfig == InitWith(ConfigSettings)

NextConfig ==
    \/ \E el \in ConfigElements : HandleChatMutations(el)
    \/ ElementCollected("h1")
    \/ \E st \in ConfigUpdates : UpdateSettings(st)
    \/ TrimTimerFire
    \/ GetTrendingCall
    \/ Tick(MsPerMinute)

SpecConfig == InitConfig /\ [][NextConfig]_vars

\* C16: the settings in use are never below their safe minimums.
C16_SettingsClamped ==
    /\ SPAM_THRESHOLD >= 1
    /\ MAX_ENTRIES >= 1
    /\ WINDOW_MS >= 0
    /\ WINDOW_MAX >= 0
    /\ RENDER_THROTTLE_MS >= 0
    /\ RAF_FALLBACK_MS > 0
    /\ TRIM_INTERVAL_MS > 0

\* the value of field f after the settings st replaced the old ones
Replaced(st, f, old) == IF f \in DOMAIN st THEN st[f] ELSE old

\* C17: after a settings update the ranking is computed with the new
\* spamThreshold and maxEntries, the trim uses the new window size and age,
\* the scheduler uses the new throttle, and the trim timer runs with the new
\* period.
C17_ReplacedValueGoverns ==
    [][\A st \in ConfigUpdates :
          UpdateSettings(st)
          => /\ getTrending' = Trending(messageCounts', messageTimestamps',
                                        Replaced(st, "spamThreshold", SPAM_THRESHOLD),
                                        Replaced(st, "maxEntries", MAX_ENTRIES))
             /\ WINDOW_MAX' = Replaced(st, "maxMessages", WINDOW_MAX)
             /\ "windowDuration" \in DOMAIN st
                => WINDOW_MS' = st["windowDuration"] * 60000
             /\ RENDER_THROTTLE_MS' = Replaced(st, "updateFrequency", RENDER_THROTTLE_MS)
             /\ "trimInterval" \in DOMAIN st
                => trimPeriod' = st["trimInterval"] * 1000]_vars

\* C20: with windowMaxSize <= 0 a trim evicts only entries over the age
\* bound, with windowMaxAgeMs <= 0 it evicts only down to the size bound, and
\* with both <= 0 it evicts nothing and every accepted ingest makes the window
\* one entry longer.
C20_DisabledBounds ==
    LET r == trimWindow(now)
        evicted == Len(recent) - Len(r.recent)
    IN  /\ IsSuffix(r.recent, recent)
        /\ WINDOW_MAX <= 0
           => \A i \in 1..evicted : WINDOW_MS > 0 /\ now - recent[i].ts > WINDOW_MS
        /\ (WINDOW_MS <= 0 /\ evicted > 0)
           => (WINDOW_MAX > 0 /\ Len(r.recent) = WINDOW_MAX)
        /\ (WINDOW_MAX <= 0 /\ WINDOW_MS <= 0)
           => /\ r.recent = recent
              /\ r.counts = messageCounts
              /\ \A el \in ConfigElements :
                    processMessageEl(el, now).accepted
                    => Len(processMessageEl(el, now).recent) = Len(recent) + 1

\* both bounds are negative and the window holds three entries, the first of
\* them two minutes old
C20_Witness ==
    /\ WINDOW_MAX < 0
    /\ WINDOW_MS < 0
    /\ Len(recent) >= 3
    /\ recent[1].ts = 0
    /\ now = 2 * MsPerMinute

\* the n most recent entries of the window
MostRecent(q, n) == IF n >= Len(q) THEN q ELSE SubSeq(q, Len(q) - n + 1, Len(q))

\* C26: a ranking computed at time now holds no signature all of whose window
\* entries are older than windowMaxAgeMs > 0, and with windowMaxSize > 0 it
\* counts for a signature no more than its entries among the windowMaxSize
\* most recent ones.
C26_RankingSeesTrimmedWindow ==
    LET tr == getTrending IN
    \A i \in 1..Len(tr) :
        /\ WINDOW_MS > 0
           => \E j \in 1..Len(recent) :
                 recent[j].text = tr[i].key /\ now - recent[j].ts <= WINDOW_MS
        /\ WINDOW_MAX > 0
           => tr[i].val.v <= WindowCount(MostRecent(recent, WINDOW_MAX), tr[i].key)

-----------------------------------------------------------------------------
(* Properties of the identity cache, under SpecDedup *)

\* C33: a settings update leaves the window queue, the counters, the
\* last-seen timestamps, the token cache, the identity map and queue and the
\* handle cache exactly as they were, also when it lowers maxMessages below
\* the length of the queue; besides the configuration it changes only the
\* scheduler, by one schedulePanelUpdate() under the new throttle, and it
\* renders nothing itself.
C33_SettingsLeaveDataAlone ==
    [][\A st \in ConfigUpdates :
          UpdateSettings(st)
          => /\ UNCHANGED <<recent, messageCounts, messageTimestamps, messageTokens>>
             /\ UNCHANGED <<processedIdMap, processedIdQueue, processedElements>>
             /\ UNCHANGED <<lastRenderTs, lastPanelContent, panelInnerHTML, trendingTexts>>
             /\ panelUpdateScheduled'
             /\ SchedState' = schedulePanelUpdate(SchedState, now,
                                  Replaced(st, "updateFrequency", RENDER_THROTTLE_MS),
                                  lastRenderTs)]_vars

\* maxMessages was lowered to 1 while the queue holds two entries, and no
\* trim has run since
C33_Witness ==
    /\ WINDOW_MAX = 1
    /\ Len(recent) = 2
    /\ OverSize(recent)
    /\ panelUpdateScheduled

\* C18: the identity cache holds at most PROCESSED_ID_LIMIT ids; an id leaves
\* it, other than by a session change, only in a step that upserts an id and
\* thereby brings the number of cached ids over the limit, and the id that
\* leaves is the oldest inserted one; an id that is not cached is accepted.
C18_IdentityCacheFifo ==
    /\ [](/\ Cardinality(DOMAIN processedIdMap) <= PROCESSED_ID_LIMIT
          /\ \A el \in DedupElements :
                (el.id # "" /\ el.id \notin DOMAIN processedIdMap)
                => processMessageEl(el, now).accepted)
    /\ [][\A id \in DedupIds :
            (id \in DOMAIN processedIdMap /\ id \notin DOMAIN processedIdMap'
             /\ ~ClearMessageData)
            => /\ id = Head(processedIdQueue)
               /\ \E el \in DedupElements :
                     /\ el.id # ""
                     /\ HandleChatMutations(el)
                     /\ Cardinality(DOMAIN processedIdMap \cup {el.id})
                          > PROCESSED_ID_LIMIT]_vars

\* C34: in every reachable state the ids in processedIdQueue are exactly the
\* keys of processedIdMap, and no id occurs twice in the queue.
C34_QueueMatchesMap ==
    /\ \A i \in 1..Len(processedIdQueue) : processedIdQueue[i] \in DOMAIN processedIdMap
    /\ \A id \in DOMAIN processedIdMap :
          \E i \in 1..Len(processedIdQueue) : processedIdQueue[i] = id
    /\ \A i, j \in 1..Len(processedIdQueue) :
          processedIdQueue[i] = processedIdQueue[j] => i = j

\* C28: an ingest with a stable id is rejected exactly when the identity cache
\* holds the id with the same signature; an accepted one is counted once under
\* its signature, leaves the counters of the other signatures as they are, and
\* leaves the id cached with the new signature and the time of the ingest.
C28_IdentityGate ==
    \A el \in DedupElements :
        (el.id # "" /\ SigOf(el) # <<>>)
        => LET r == processMessageEl(el, now) IN
           /\ ~r.accepted <=> CachedUnder(processedIdMap, el.id, SigOf(el))
           /\ r.accepted
              => /\ r.recent = Append(recent, [text |-> SigOf(el), ts |-> now])
                 /\ StoredCount(r.counts, SigOf(el))
                      = Num(StoredCount(messageCounts, SigOf(el)).v + 1)
                 /\ \A s \in ObjKeys(messageCounts) \ {SigOf(el)} :
                       StoredCount(r.counts, s) = StoredCount(messageCounts, s)
                 /\ el.id \in DOMAIN r.idMap
                 /\ r.idMap[el.id] = [signature |-> SigOf(el), ts |-> now]

-----------------------------------------------------------------------------
(* The token cache: one element rendered with text or with an emote, a     *)
(* window of one message                                                    *)

TokenContents ==
    { <<TextToken(gg)>>, <<EmoteToken(<<"G", "G">>, "cdn/gg.png")>>,
      <<TextToken(ProtoKey)>>, <<EmoteToken(ProtoKey, "cdn/c.png")>> }

TokenElements == ElementsOf({}, {"h1"}, TokenContents)

TokenSettings == { Settings(1, 2, 0, 1, 50, 5, 0) }

InitTokens == InitWith(TokenSettings)

NextTokens ==
    \/ \E el \in TokenElements : HandleChatMutations(el)
    \/ ElementCollected("h1")
    \/ TrimTimerFire
    \/ ClearMessageData

SpecTokens == InitTokens /\ [][NextTokens]_vars

\* C19: the tokens cached for a signature are those of the first accepted
\* message since the signature last had no window entry: an accepted message
\* of a signature without window entry stores its tokens, and no step changes
\* the cached tokens of a signature that keeps a window entry.
C19_FirstTokensKept ==
    [][/\ \A el \in TokenElements :
             (HandleChatMutations(el) /\ processMessageEl(el, now).accepted
              /\ WindowCount(recent, SigOf(el)) = 0)
             => /\ SigOf(el) \in DOMAIN messageTokens'
                /\ messageTokens'[SigOf(el)] = el.tokens
       /\ \A s \in WindowSigs(recent) \cap WindowSigs(recent') :
             /\ s \in DOMAIN messageTokens
             /\ s \in DOMAIN messageTokens'
             /\ messageTokens'[s] = messageTokens[s]]_vars

-----------------------------------------------------------------------------
(* Resend: message elements rendered with text and emotes, a window of one *)
(* message, recomputations in the next frame, ranking on request, clicks   *)
(* and keys for the first two slots                                         *)

ResendContents ==
    { <<EmoteToken(<<"G", "G">>, "cdn/gg.png"), TextToken(<<"W", "P">>)>>,
      <<TextToken(wp)>> }

ResendElements == ElementsOf({}, {"h1"}, ResendContents)

ResendSettings == { Settings(1, 2, 0, 1, 0, 5, 0) }

ResendSlots == 1..2

InitResend == InitWith(ResendSettings)

NextResend ==
    \/ \E el \in ResendElements : HandleChatMutations(el)
    \/ TrimTimerFire
    \/ GetTrendingCall
    \/ RafFire
    \/ ClearMessageData
    \/ \E i \in ResendSlots : TriggerSlot(i)

SpecResend == InitResend /\ [][NextResend]_vars

\* the tokens as plain text: the content of a text token, the alt text of an
\* emote, joined by single spaces
Flattened(tokens) == JoinSpace([i \in 1..Len(tokens) |-> TokenText(tokens[i])])

\* C21: a request for slot i takes the signature at position i of the last
\* ranked list and hands the tokens cached for it, as plain text, to
\* fillChatInput; when the list has no position i nothing is handed over.
C21_ResendSlot ==
    /\ [](\A i \in ResendSlots :
            LET r == triggerSlot(i) IN
            IF i <= Len(trendingTexts)
            THEN /\ r.fill
                 /\ trendingTexts[i] \in DOMAIN messageTokens
                 /\ r.text = Flattened(messageTokens[trendingTexts[i]])
            ELSE ~r.fill)
    /\ [][\A i \in ResendSlots :
            TriggerSlot(i)
            => sendText' = IF triggerSlot(i).fill THEN triggerSlot(i).text
                           ELSE sendText]_vars

-----------------------------------------------------------------------------
(* The normalizer: one element whose text carries capitals, runs of blanks *)
(* and zero-width characters, and all texts up to a length                  *)

MaxTextLen == 3

NormalizeChars == {"G", "g", "w", " ", "TAB", "ZWSP", "BOM"}

\* every text of at most n characters
Texts(n) == UNION {[1..k -> NormalizeChars] : k \in 0..n}

NormalizeContents ==
    { <<TextToken(<<"G", "ZWSP", "g">>)>>,
      <<TextToken(gg)>>,
      <<TextToken(<<"g", " ", "TAB", "W">>)>>,
      <<TextToken(<<"G", "BOM", " ", "w">>)>>,
      <<TextToken(<<"ZWSP">>)>> }

NormalizeElements == ElementsOf({}, {"h1"}, NormalizeContents)

NormalizeSettings == { Settings(1, 2, 0, 2, 50, 5, 0) }

InitNormalize == InitWith(NormalizeSettings)

NextNormalize ==
    \/ \E el \in NormalizeElements : HandleChatMutations(el)
    \/ ElementCollected("h1")
    \/ TrimTimerFire
    \/ ClearMessageData

SpecNormalize == InitNormalize /\ [][NextNormalize]_vars

\* the words of a text: its letters in lower case, without the zero-width
\* characters, split at the runs of blanks
Blank(c) == c \in {" ", "TAB"}
Invisible(c) == c \in {"ZWSP", "ZWJ", "BOM"}

RECURSIVE Split(_, _, _)
Split(s, word, words) ==
    LET done == IF word = <<>> THEN words ELSE Append(words, word) IN
    IF s = <<>> THEN done
    ELSE IF Invisible(Head(s)) THEN Split(Tail(s), word, words)
    ELSE IF Blank(Head(s)) THEN Split(Tail(s), <<>>, done)
    ELSE Split(Tail(s), Append(word, toLowerCase(Head(s))), words)

Words(s) == Split(s, <<>>, <<>>)

\* C23: the signature of a text is its words joined by single spaces, so
\* that texts with the same words (differing in letter case, in the length
\* of the runs of blanks, in blanks at the ends or in zero-width characters)
\* have the same signature; a signature is its own signature; a text of
\* blanks and zero-width characters has the empty signature; and the
\* signature counted for a message is the one of the text of its tokens.
C23_NormalizeIdempotent ==
    /\ \A x \in Texts(MaxTextLen) :
          /\ normalizeText(x) = JoinSpace(Words(x))
          /\ normalizeText(normalizeText(x)) = normalizeText(x)
          /\ (\A i \in 1..Len(x) : Blank(x[i]) \/ Invisible(x[i]))
             => normalizeText(x) = <<>>
    /\ \A s \in DOMAIN messageTokens :
          /\ s = JoinSpace(Words(tokensToText(messageTokens[s])))
          /\ normalizeText(s) = s
    /\ \A i \in 1..Len(recent) : normalizeText(recent[i].text) = recent[i].text

\* a message with a capital and a zero-width character was counted as gg,
\* and one with a run of two blanks as "g w"
C23_Witness ==
    /\ Len(recent) = 2
    /\ recent[1].text = gg
    /\ recent[2].text = <<"g", " ", "w">>
    /\ messageTokens[gg] = <<TextToken(<<"G", "ZWSP", "g">>)>>
    /\ messageTokens[<<"g", " ", "w">>] = <<TextToken(<<"g", " ", "TAB", "W">>)>>

\* the scheduler after one request made in this state
AfterRequest == schedulePanelUpdate(SchedState, now, RENDER_THROTTLE_MS, lastRenderTs)

\* the scheduler of the next state is s
SchedBecomes(s) ==
    /\ panelUpdateScheduled' = s.scheduled
    /\ panelDelayId' = s.delayId
    /\ panelFallbackId' = s.fallbackId
    /\ rafId' = s.rafId
    /\ timers' = s.timers

\* C29: an accepted message requests an update, so that one is pending after
\* it; a trim counts every entry it evicts, requests an update when it evicted
\* at least one entry and leaves the scheduler as it is when it evicted none.
C29_RequestsOnChange ==
    /\ [](trimWindow(now).trimmed = Len(recent) - Len(trimWindow(now).recent))
    /\ [][/\ \A el \in ResendElements :
                (HandleChatMutations(el) /\ Len(recent') = Len(recent) + 1)
                => (panelUpdateScheduled' /\ SchedBecomes(AfterRequest))
          /\ TrimTimerFire
             => IF Len(recent') < Len(recent)
                THEN panelUpdateScheduled' /\ SchedBecomes(AfterRequest)
                ELSE UNCHANGED schedVars]_vars

\* a recomputation ran, a trim then evicted the older of two entries and its
\* request set the frame callback and the fallback timer
C29_Witness ==
    /\ lastPanelContent # EmptyContent
    /\ lastPanelContent.count = 2
    /\ Len(recent) = 1
    /\ Len(messageCounts) = 1
    /\ panelUpdateScheduled
    /\ rafId # NoTimer
    /\ panelFallbackId # NoTimer

-----------------------------------------------------------------------------
(* The two dedup caches side by side: one message element that is rendered
   with and without a message id. *)

CacheContents == { <<TextToken(gg)>>, <<TextToken(wp)>> }

CacheElements ==
    {[id |-> i, handle |-> "h1", tokens |-> c] : i \in {"", "a"}, c \in CacheContents}

CacheSettings == { Settings(1, 2, 0, 0, 50, 5, 0) }

InitCaches == InitWith(CacheSettings)

NextCaches ==
    \/ \E el \in CacheElements : HandleChatMutations(el)
    \/ ClearMessageData
    \/ Tick(ELEMENT_REPROCESS_GRACE_MS)

SpecCaches == InitCaches /\ [][NextCaches]_vars

\* the element is cached under the signature and the grace span, counted from
\* the cached timestamp, is not over at time t
WithinGrace(el, t) ==
    /\ el.handle \in DOMAIN processedElements
    /\ processedElements[el.handle].signature = SigOf(el)
    /\ t - processedElements[el.handle].ts < 2 * ELEMENT_REPROCESS_GRACE_MS

\* some message was counted under the signature at time t
CountedAt(signature, t) ==
    \E i \in 1..Len(recent) : recent[i] = [text |-> signature, ts |-> t]

\* C37: a rejected ingest returns the identity map, the identity queue and the
\* element cache unchanged; an element with an id is accepted or rejected by
\* the identity map alone and leaves the element cache as it is, an element
\* without an id is accepted or rejected by the element cache alone and leaves
\* the identity map and queue as they are; and the timestamp of every entry of
\* either cache is the time of a counted message of that signature, so the
\* grace span runs from the last accepted observation.
C37_RejectKeepsCaches ==
    /\ [](\A el \in CacheElements :
            LET r == processMessageEl(el, now) IN
            /\ ~r.accepted
               => /\ r.idMap = processedIdMap
                  /\ r.idQueue = processedIdQueue
                  /\ r.elements = processedElements
            /\ el.id # ""
               => /\ r.elements = processedElements
                  /\ r.accepted <=> ~CachedUnder(processedIdMap, el.id, SigOf(el))
            /\ el.id = ""
               => /\ r.idMap = processedIdMap
                  /\ r.idQueue = processedIdQueue
                  /\ r.accepted <=> ~WithinGrace(el, now))
    /\ [](/\ \A h \in DOMAIN processedElements :
                CountedAt(processedElements[h].signature, processedElements[h].ts)
          /\ \A id \in DOMAIN processedIdMap :
                CountedAt(processedIdMap[id].signature, processedIdMap[id].ts))
    /\ [][\A el \in CacheElements :
            HandleChatMutations(el)
            => IF el.id # ""
               THEN UNCHANGED processedElements
               ELSE UNCHANGED <<processedIdMap, processedIdQueue>>]_vars

\* the element was counted without an id at 0, observed again at 120 and
\* rejected, counted with id a at 120 although the element cache held it
\* under the same signature, and counted again without an id at 240; the
\* element cache entry was written at 0 and at 240 only
C37_Witness ==
    /\ now = 2 * ELEMENT_REPROCESS_GRACE_MS
    /\ recent = <<[text |-> wp, ts |-> 0],
                  [text |-> wp, ts |-> ELEMENT_REPROCESS_GRACE_MS],
                  [text |-> wp, ts |-> 2 * ELEMENT_REPROCESS_GRACE_MS]>>
    /\ processedElements = MapSet(EmptyMap, "h1",
                              [signature |-> wp, ts |-> 2 * ELEMENT_REPROCESS_GRACE_MS])
    /\ processedIdMap = MapSet(EmptyMap, "a",
                              [signature |-> wp, ts |-> ELEMENT_REPROCESS_GRACE_MS])
    /\ processedIdQueue = <<"a">>

-----------------------------------------------------------------------------
(* The scheduler under fair timers: the page produces messages, collections,
   settings changes and stream changes for MaxTicks clock steps and is quiet
   afterwards; the timers that are due fire and the clock goes on, while the
   frame callback may be delayed for ever (a tab that is not painted). *)

LiveContents == { <<TextToken(gg)>> }

LiveElements == ElementsOf({}, {"h1"}, LiveContents)

LiveSettings == { Settings(2, 2, 0, 1, 50, 5, 1) }

LiveUpdates == { [updateFrequency |-> 100], [spamThreshold |-> 1] }

\* the page still produces events
PageActive == ticks < MaxTicks

\* the clock goes on while a timer waits for its due time
TimePasses(d) ==
    /\ ~PageActive
    /\ \E tm \in timers : tm.kind # "raf" /\ now < tm.due
    /\ now' = now + d
    /\ UNCHANGED <<ticks, confVars, trimPeriod, sendText, aggVars, dedupVars, schedVars, panelVars>>

ClockAdvance == Tick(RAF_FALLBACK_MS) \/ TimePasses(RAF_FALLBACK_MS)

InitLive == InitWith(LiveSettings)

NextLive ==
    \/ PageActive /\ \E el \in LiveElements : HandleChatMutations(el)
    \/ PageActive /\ ElementCollected("h1")
    \/ PageActive /\ \E st \in LiveUpdates : UpdateSettings(st)
    \/ PageActive /\ ClearMessageData
    \/ TrimTimerFire
    \/ DelayTimerFire
    \/ RafFire
    \/ FallbackFire
    \/ ClockAdvance

SpecLive ==
    /\ InitLive
    /\ [][NextLive]_vars
    /\ WF_vars(DelayTimerFire)
    /\ WF_vars(FallbackFire)
    /\ WF_vars(ClockAdvance)

\* C32: every pending recomputation is run in the end although the frame
\* callback has no fairness: the pending flag that a request set is cleared
\* again, and the only step that clears it is a recomputation (the ranking is
\* taken and the time of the rendering is noted).
C32_EventuallyRecomputed ==
    /\ panelUpdateScheduled ~> ~panelUpdateScheduled
    /\ [][(panelUpdateScheduled /\ ~panelUpdateScheduled')
          => (lastRenderTs' = now /\ trendingTexts' = TrendingKeys(getTrending))]_vars

\* the frame callback was not run until the fallback timer became due
C32_Witness ==
    /\ panelUpdateScheduled
    /\ rafId # NoTimer
    /\ panelFallbackId # NoTimer
    /\ now >= panelFallbackId.due
    /\ rafId \in timers
    /\ panelFallbackId \in timers

\* nothing was rendered yet, and nothing was counted or requested
NeverRendered ==
    /\ panelInnerHTML = EmptyContent
    /\ lastRenderTs = 0
    /\ recent = <<>>
    /\ messageCounts = <<>>

\* C36: whenever no recomputation is pending, the panel shows the rendering
\* of the ranking of the current state (or nothing was ever requested), and
\* once the page is quiet the scheduler becomes idle for good: no
\* recomputation pending, no timer outstanding. A message, eviction, stream
\* change or settings change made while a recomputation was pending is
\* therefore in the panel after that recomputation.
C36_QuiescentPanelCurrent ==
    /\ [](~panelUpdateScheduled => (NeverRendered \/ panelInnerHTML = Serialized))
    /\ <>[](~panelUpdateScheduled /\ timers = {})

\* both messages were counted at time 0, the second one while the
\* recomputation requested by the first was pending; the panel shows the
\* signature, which reaches the threshold of 2 only with the second message
C36_Witness ==
    /\ ~panelUpdateScheduled
    /\ SPAM_THRESHOLD = 2
    /\ Len(recent) = 2
    /\ recent[1].ts = 0
    /\ recent[2].ts = 0
    /\ panelInnerHTML = Serialized
    /\ panelInnerHTML.count = 1

=============================================================================
